---- MODULE Spec2Model ----
(***************************************************************************)
(* Token lifecycle of the online-cinema accounts service: registration,   *)
(* activation, login / refresh / logout, password reset and the periodic  *)
(* sweep of activation tokens (routes/accounts.py, database/crud/          *)
(* accounts.py, services/tasks.py).                                        *)
(***************************************************************************)
EXTENDS Integers, FiniteSets, Sequences, TLC

(* ---------------- bounds of the model ---------------- *)
MaxTime == 3
MaxTokens == 3
MaxLogins == 2

Emails == {"a@b.com", "c@d.com"}
Passwords == {"pw1", "pw2"}
Procs == {"r1", "r2"}

(* ---------------- configuration (ticks of the model clock) ------------- *)
ACTIVATION_TOKEN_TTL == 1
PASSWORD_RESET_TOKEN_TTL == 1
LOGIN_TIME_DAYS == 2
REFRESH_TOKEN_TTL == 2
ACCESS_TOKEN_TTL == 1

VARIABLES
    now,               \* datetime.now(timezone.utc)
    users,             \* table users, keyed by email
    activation_tokens, \* table activation_tokens
    password_reset_tokens, \* table password_reset_tokens
    refresh_tokens,    \* table refresh_tokens
    next_token,        \* next string drawn by generate_secure_token
    logged_out,        \* refresh strings for which logout_user returned 200
    last,              \* the most recent step: a request and its response
    pc,                \* position of each interleaved request
    req_user,          \* user row read by each interleaved request
    req_data,          \* token row and new password held by each request
    shadow,            \* the same requests served without any sweep
    carts,             \* table carts
    cart_items,        \* table cart_items
    cart_item_seq,     \* next value of the serial cart_items.id
    orders,            \* table orders
    order_items,       \* table order_items
    payments,          \* table payments
    payment_items      \* table payment_items

vars == <<now, users, activation_tokens, password_reset_tokens,
          refresh_tokens, next_token, logged_out, last,
          pc, req_user, req_data, shadow,
          carts, cart_items, cart_item_seq, orders, order_items,
          payments, payment_items>>

db == <<users, activation_tokens, password_reset_tokens, refresh_tokens>>
conc == <<pc, req_user, req_data>>
shop == <<carts, cart_items, cart_item_seq, orders, order_items,
          payments, payment_items>>

(* ---------------- values ---------------- *)
NoToken == 0
\* the strings a client can present: the ones generated so far, and a bogus one
OpaqueTokens == 0 .. (next_token - 1)
NoJwt == [key |-> "none", user_id |-> 0, exp |-> 0]
Garbage == [key |-> "garbage", user_id |-> 0, exp |-> 0]
NoEmail == ""

Response(op, status, detail, email, token, jwt, access) ==
    [op |-> op, status |-> status, detail |-> detail, email |-> email,
     token |-> token, jwt |-> jwt, access |-> access]

(* ---------------- security ---------------- *)
hash_password(password) == [scheme |-> "bcrypt", of |-> password]

verify_password(plain_password, hashed_password) ==
    hashed_password = hash_password(plain_password)

\* the two signing keys of the settings
SECRET_KEY_ACCESS == "access"
SECRET_KEY_REFRESH == "refresh"

\* a manager handed the access key for both kinds of token
get_jwt_auth_manager_one_key ==
    [secret_key_access |-> SECRET_KEY_ACCESS,
     secret_key_refresh |-> SECRET_KEY_ACCESS]

get_jwt_auth_manager ==
    [secret_key_access |-> SECRET_KEY_ACCESS,
     secret_key_refresh |-> SECRET_KEY_REFRESH]

\* a token is the key that signed it, the user_id claim and the exp claim
create_access_token(user_id, t) ==
    [key |-> get_jwt_auth_manager.secret_key_access, user_id |-> user_id,
     exp |-> t + ACCESS_TOKEN_TTL]

create_refresh_token(user_id, t) ==
    [key |-> get_jwt_auth_manager.secret_key_refresh, user_id |-> user_id,
     exp |-> t + REFRESH_TOKEN_TTL]

\* TRUE when decode_refresh_token returns the claims, FALSE when it raises
decode_refresh_token_ok(token, t) ==
    /\ token.key = get_jwt_auth_manager.secret_key_refresh
    /\ token.exp > t

decode_access_token_ok(token, t) ==
    /\ token.key = get_jwt_auth_manager.secret_key_access
    /\ token.exp > t

(* ---------------- database/crud/accounts.py ---------------- *)
user_ids == {users[e].id : e \in DOMAIN users}

get_user_by_email(email) ==
    IF email \in DOMAIN users THEN {email} ELSE {}

get_user_by_id(user_id) ==
    {e \in DOMAIN users : users[e].id = user_id}

\* a lookup by email alone, whatever token string is presented
get_activation_token_by_email_only(email, token) ==
    {r \in activation_tokens :
        \E e \in DOMAIN users : e = email /\ users[e].id = r.user_id}

get_activation_token_by_email_token(email, token) ==
    {r \in activation_tokens :
        /\ r.token = token
        /\ \E e \in DOMAIN users : e = email /\ users[e].id = r.user_id}

get_password_reset_token_by_user_id(user_id) ==
    {r \in password_reset_tokens : r.user_id = user_id}

\* a lookup that forgets to filter by the token string
get_refresh_token_unfiltered(refresh_token) ==
    refresh_tokens

get_refresh_token_by_refresh_token(refresh_token) ==
    {r \in refresh_tokens : r.token = refresh_token}

\* a lookup that never finds the token to replace
get_latest_activation_token_not_found(email) ==
    {}

\* the rows among which .order_by(desc(expires_at)).limit(1) picks
get_latest_activation_token_by_email(email) ==
    LET rows == {r \in activation_tokens :
                    \E e \in DOMAIN users : e = email /\ users[e].id = r.user_id}
    IN {r \in rows : \A q \in rows : q.expires_at <= r.expires_at}

TokenRow(token, user_id, expires_at) ==
    [token |-> token, user_id |-> user_id, expires_at |-> expires_at]

RefreshRow(token, user_id, expires_at) ==
    [token |-> token, user_id |-> user_id, expires_at |-> expires_at]

\* nothing held by a request
NoData == [token_record |-> TokenRow(NoToken, 0, 0), password |-> ""]

\* users and activation tokens of the run without sweeps, and the outcome
\* of its latest request
Shadow(us, tokens, status, detail) ==
    [users |-> us, activation_tokens |-> tokens,
     status |-> status, detail |-> detail]

(* ---------------- initial state: empty database ---------------- *)
\* no cart, no order and no payment yet
InitShop ==
    /\ carts = {}
    /\ cart_items = {}
    /\ cart_item_seq = 1
    /\ orders = {}
    /\ order_items = {}
    /\ payments = {}
    /\ payment_items = {}

Init ==
    /\ now = 0
    /\ users = [e \in {} |-> {}]
    /\ activation_tokens = {}
    /\ password_reset_tokens = {}
    /\ refresh_tokens = {}
    /\ next_token = 1
    /\ logged_out = {}
    /\ last = Response("none", 0, "", NoEmail, NoToken, NoJwt, NoJwt)
    /\ pc = [p \in Procs |-> "idle"]
    /\ req_user = [p \in Procs |-> NoEmail]
    /\ req_data = [p \in Procs |-> NoData]
    /\ shadow = Shadow(users, activation_tokens, 0, "")
    /\ InitShop

(* ---------------- the clock ---------------- *)
Tick ==
    /\ now < MaxTime
    /\ now' = now + 1
    /\ last' = Response("tick", 0, "", NoEmail, NoToken, NoJwt, NoJwt)
    /\ UNCHANGED <<db, next_token, logged_out, conc, shadow, shop>>

(* ---------------- rows a query may return ---------------- *)
NoRow == TokenRow(NoToken, 0, 0)

\* result of scalars().first(): some matching row, or none
first(rows) == IF rows = {} THEN {NoRow} ELSE rows

\* an expiry test that never fires
is_expired_never(row, t) == FALSE

is_expired(row, t) == row.expires_at < t

User(id, password, is_active) ==
    [id |-> id, password |-> password, is_active |-> is_active]

(* ---------------- POST /register/ ---------------- *)
\* a creation that commits the user and adds no activation token
create_user_without_token(email, password) ==
    LET id == Cardinality(DOMAIN users) + 1
    IN /\ users' = [e \in DOMAIN users \cup {email} |->
                       IF e = email
                       THEN User(id, hash_password(password), FALSE)
                       ELSE users[e]]
       /\ activation_tokens' = activation_tokens
       /\ next_token' = next_token + 1

create_user_by_email_password_group_id(email, password) ==
    LET id == Cardinality(DOMAIN users) + 1
    IN /\ users' = [e \in DOMAIN users \cup {email} |->
                       IF e = email
                       THEN User(id, hash_password(password), FALSE)
                       ELSE users[e]]
       /\ activation_tokens' = activation_tokens \cup
              {TokenRow(next_token, id, now + ACTIVATION_TOKEN_TTL)}
       /\ next_token' = next_token + 1

register_user(email, password) ==
    /\ IF get_user_by_email(email) # {}
       THEN /\ last' = Response("register", 409, "exists", email,
                                NoToken, NoJwt, NoJwt)
            /\ UNCHANGED <<users, activation_tokens, next_token>>
       ELSE /\ next_token <= MaxTokens
            /\ \/ /\ create_user_by_email_password_group_id(email, password)
                  /\ last' = Response("register", 201, "created", email,
                                      next_token, NoJwt, NoJwt)
               \* SQLAlchemyError raised by flush or commit: rolled back
               \/ /\ UNCHANGED <<users, activation_tokens, next_token>>
                  /\ last' = Response("register", 500, "error", email,
                                      NoToken, NoJwt, NoJwt)
               \* SQLAlchemyError raised by db.refresh, after the commit
               \/ /\ create_user_by_email_password_group_id(email, password)
                  /\ last' = Response("register", 500, "error", email,
                                      NoToken, NoJwt, NoJwt)
    /\ UNCHANGED <<now, password_reset_tokens, refresh_tokens, logged_out, conc>>

(* ---------------- POST /activate/ ---------------- *)
\* an activation that leaves the consumed token in the table
activate_account_keeps_token(email, token) ==
    /\ \E token_record \in first(get_activation_token_by_email_token(email, token)) :
         IF token_record = NoRow
         THEN /\ last' = Response("activate", 400, "invalid", email, token,
                                  NoJwt, NoJwt)
              /\ UNCHANGED <<users, activation_tokens>>
         ELSE IF is_expired(token_record, now)
         THEN /\ activation_tokens' = activation_tokens \ {token_record}
              /\ last' = Response("activate", 400, "invalid", email, token,
                                  NoJwt, NoJwt)
              /\ UNCHANGED users
         ELSE IF users[email].is_active
         THEN /\ last' = Response("activate", 400, "already active", email,
                                  token, NoJwt, NoJwt)
              /\ UNCHANGED <<users, activation_tokens>>
         ELSE /\ users' = [users EXCEPT ![email].is_active = TRUE]
              /\ UNCHANGED activation_tokens
              /\ last' = Response("activate", 200, "activated", email, token,
                                  NoJwt, NoJwt)
    /\ UNCHANGED <<now, password_reset_tokens, refresh_tokens, next_token,
                   logged_out, conc>>

activate_account(email, token) ==
    /\ \E token_record \in first(get_activation_token_by_email_token(email, token)) :
         IF token_record = NoRow
         THEN /\ last' = Response("activate", 400, "invalid", email, token,
                                  NoJwt, NoJwt)
              /\ UNCHANGED <<users, activation_tokens>>
         ELSE IF is_expired(token_record, now)
         THEN /\ activation_tokens' = activation_tokens \ {token_record}
              /\ last' = Response("activate", 400, "invalid", email, token,
                                  NoJwt, NoJwt)
              /\ UNCHANGED users
         ELSE IF users[email].is_active
         THEN /\ last' = Response("activate", 400, "already active", email,
                                  token, NoJwt, NoJwt)
              /\ UNCHANGED <<users, activation_tokens>>
         ELSE /\ users' = [users EXCEPT ![email].is_active = TRUE]
              /\ activation_tokens' = activation_tokens \ {token_record}
              /\ last' = Response("activate", 200, "activated", email, token,
                                  NoJwt, NoJwt)
    /\ UNCHANGED <<now, password_reset_tokens, refresh_tokens, next_token,
                   logged_out, conc>>

(* ---------------- POST /password-reset/request/ ---------------- *)
\* a request that leaves the earlier tokens of the user in place
delete_password_reset_token_skipped(tokens, user_id) ==
    tokens

delete_password_reset_token_by_user_id(tokens, user_id) ==
    {r \in tokens : r.user_id # user_id}

create_password_reset_token_by_user_id(tokens, user_id) ==
    tokens \cup {TokenRow(next_token, user_id, now + PASSWORD_RESET_TOKEN_TTL)}

\* a request that issues a token to inactive accounts too
request_password_reset_token_any_user(email) ==
    /\ IF get_user_by_email(email) = {}
       THEN UNCHANGED <<password_reset_tokens, next_token>>
       ELSE /\ next_token <= MaxTokens
            /\ password_reset_tokens' =
                 create_password_reset_token_by_user_id(
                   delete_password_reset_token_by_user_id(
                     password_reset_tokens, users[email].id),
                   users[email].id)
            /\ next_token' = next_token + 1
    /\ last' = Response("reset_request", 200, "if registered", email,
                        NoToken, NoJwt, NoJwt)
    /\ UNCHANGED <<now, users, activation_tokens, refresh_tokens, logged_out, conc>>

request_password_reset_token(email) ==
    /\ IF get_user_by_email(email) = {} \/ ~users[email].is_active
       THEN UNCHANGED <<password_reset_tokens, next_token>>
       ELSE /\ next_token <= MaxTokens
            /\ password_reset_tokens' =
                 create_password_reset_token_by_user_id(
                   delete_password_reset_token_by_user_id(
                     password_reset_tokens, users[email].id),
                   users[email].id)
            /\ next_token' = next_token + 1
    /\ last' = Response("reset_request", 200, "if registered", email,
                        NoToken, NoJwt, NoJwt)
    /\ UNCHANGED <<now, users, activation_tokens, refresh_tokens, logged_out, conc>>

(* ---------------- POST /reset-password/complete/ ---------------- *)
\* a reset that leaves the stored token in place when the strings differ
reset_password_keeps_token(email, token, password) ==
    /\ IF get_user_by_email(email) = {} \/ ~users[email].is_active
       THEN /\ last' = Response("reset", 400, "invalid", email, token,
                                NoJwt, NoJwt)
            /\ UNCHANGED <<users, password_reset_tokens>>
       ELSE \E token_record \in
                first(get_password_reset_token_by_user_id(users[email].id)) :
            IF token_record = NoRow \/ token_record.token # token
            THEN /\ last' = Response("reset", 400, "invalid", email, token,
                                     NoJwt, NoJwt)
                 /\ UNCHANGED <<users, password_reset_tokens>>
            ELSE IF is_expired(token_record, now)
            THEN /\ password_reset_tokens' =
                      password_reset_tokens \ {token_record}
                 /\ last' = Response("reset", 400, "invalid", email, token,
                                     NoJwt, NoJwt)
                 /\ UNCHANGED users
            ELSE /\ users' = [users EXCEPT
                                ![email].password = hash_password(password)]
                 /\ password_reset_tokens' =
                      password_reset_tokens \ {token_record}
                 /\ last' = Response("reset", 200, "reset", email, token,
                                     NoJwt, NoJwt)
    /\ UNCHANGED <<now, activation_tokens, refresh_tokens, next_token,
                   logged_out, conc>>

reset_password(email, token, password) ==
    /\ IF get_user_by_email(email) = {} \/ ~users[email].is_active
       THEN /\ last' = Response("reset", 400, "invalid", email, token,
                                NoJwt, NoJwt)
            /\ UNCHANGED <<users, password_reset_tokens>>
       ELSE \E token_record \in
                first(get_password_reset_token_by_user_id(users[email].id)) :
            IF token_record = NoRow \/ token_record.token # token
            THEN /\ password_reset_tokens' =
                      password_reset_tokens \ {token_record}
                 /\ last' = Response("reset", 400, "invalid", email, token,
                                     NoJwt, NoJwt)
                 /\ UNCHANGED users
            ELSE IF is_expired(token_record, now)
            THEN /\ password_reset_tokens' =
                      password_reset_tokens \ {token_record}
                 /\ last' = Response("reset", 400, "invalid", email, token,
                                     NoJwt, NoJwt)
                 /\ UNCHANGED users
            ELSE /\ users' = [users EXCEPT
                                ![email].password = hash_password(password)]
                 /\ password_reset_tokens' =
                      password_reset_tokens \ {token_record}
                 /\ last' = Response("reset", 200, "reset", email, token,
                                     NoJwt, NoJwt)
    /\ UNCHANGED <<now, activation_tokens, refresh_tokens, next_token,
                   logged_out, conc>>

(* ---------------- POST /login/ ---------------- *)
\* the JWT strings clients hold: every refresh string was returned by a
\* login, and its row leaves the table only through logout_user
issued_refresh == {r.token : r \in refresh_tokens} \cup logged_out

\* refresh_tokens.token is unique: inserting a stored string fails
refresh_token_is_stored(token) == \E r \in refresh_tokens : r.token = token

\* a login that forgets to persist the refresh token
create_refresh_token_not_persisted(user_id, days_valid, token) ==
    refresh_tokens

\* db.add + flush + commit
create_refresh_token_by_user_id_days_token(user_id, days_valid, token) ==
    refresh_tokens \cup {RefreshRow(token, user_id, now + days_valid)}

\* a login that looks at is_active before the credentials
login_user_active_first(email, password) ==
    /\ IF get_user_by_email(email) = {}
       THEN /\ last' = Response("login", 401, "invalid credentials", email,
                                NoToken, NoJwt, NoJwt)
            /\ UNCHANGED refresh_tokens
       ELSE IF ~users[email].is_active
       THEN /\ last' = Response("login", 403, "not activated", email,
                                NoToken, NoJwt, NoJwt)
            /\ UNCHANGED refresh_tokens
       ELSE IF ~verify_password(password, users[email].password)
       THEN /\ last' = Response("login", 401, "invalid credentials", email,
                                NoToken, NoJwt, NoJwt)
            /\ UNCHANGED refresh_tokens
       ELSE LET jwt_refresh_token == create_refresh_token(users[email].id, now)
                jwt_access_token == create_access_token(users[email].id, now)
            IN IF refresh_token_is_stored(jwt_refresh_token)
               THEN /\ last' = Response("login", 500, "error", email,
                                        NoToken, NoJwt, NoJwt)
                    /\ UNCHANGED refresh_tokens
               ELSE /\ Cardinality(issued_refresh \cup {jwt_refresh_token})
                         <= MaxLogins
                    /\ refresh_tokens' =
                         create_refresh_token_by_user_id_days_token(
                           users[email].id, LOGIN_TIME_DAYS, jwt_refresh_token)
                    /\ last' = Response("login", 201, "tokens", email, NoToken,
                                        jwt_refresh_token, jwt_access_token)
    /\ UNCHANGED <<now, users, activation_tokens, password_reset_tokens,
                   next_token, logged_out, conc>>

login_user(email, password) ==
    /\ IF \/ get_user_by_email(email) = {}
          \/ ~verify_password(password, users[email].password)
       THEN /\ last' = Response("login", 401, "invalid credentials", email,
                                NoToken, NoJwt, NoJwt)
            /\ UNCHANGED refresh_tokens
       ELSE IF ~users[email].is_active
       THEN /\ last' = Response("login", 403, "not activated", email,
                                NoToken, NoJwt, NoJwt)
            /\ UNCHANGED refresh_tokens
       ELSE LET jwt_refresh_token == create_refresh_token(users[email].id, now)
                jwt_access_token == create_access_token(users[email].id, now)
            IN IF refresh_token_is_stored(jwt_refresh_token)
               THEN /\ last' = Response("login", 500, "error", email,
                                        NoToken, NoJwt, NoJwt)
                    /\ UNCHANGED refresh_tokens
               ELSE /\ Cardinality(issued_refresh \cup {jwt_refresh_token})
                         <= MaxLogins
                    /\ refresh_tokens' =
                         create_refresh_token_by_user_id_days_token(
                           users[email].id, LOGIN_TIME_DAYS, jwt_refresh_token)
                    /\ last' = Response("login", 201, "tokens", email, NoToken,
                                        jwt_refresh_token, jwt_access_token)
    /\ UNCHANGED <<now, users, activation_tokens, password_reset_tokens,
                   next_token, logged_out, conc>>

(* ---------------- POST /refresh/ ---------------- *)
\* a refresh that consumes the presented refresh token on success
refresh_access_token_rotates(refresh_token) ==
    /\ IF ~decode_refresh_token_ok(refresh_token, now)
       THEN /\ last' = Response("refresh", 400, "decode error", NoEmail,
                                NoToken, refresh_token, NoJwt)
            /\ UNCHANGED refresh_tokens
       ELSE IF get_refresh_token_by_refresh_token(refresh_token) = {}
       THEN /\ last' = Response("refresh", 401, "Refresh token not found",
                                NoEmail, NoToken, refresh_token, NoJwt)
            /\ UNCHANGED refresh_tokens
       ELSE IF get_user_by_id(refresh_token.user_id) = {}
       THEN /\ last' = Response("refresh", 404, "User not found", NoEmail,
                                NoToken, refresh_token, NoJwt)
            /\ UNCHANGED refresh_tokens
       ELSE LET new_access_token ==
                    create_access_token(refresh_token.user_id, now)
            IN /\ last' = Response("refresh", 200, "access token", NoEmail,
                                   NoToken, refresh_token, new_access_token)
               /\ refresh_tokens' =
                    refresh_tokens \
                      get_refresh_token_by_refresh_token(refresh_token)
    /\ UNCHANGED <<now, users, activation_tokens, password_reset_tokens,
                   next_token, logged_out, conc>>

refresh_access_token(refresh_token) ==
    /\ IF ~decode_refresh_token_ok(refresh_token, now)
       THEN last' = Response("refresh", 400, "decode error", NoEmail,
                             NoToken, refresh_token, NoJwt)
       ELSE IF get_refresh_token_by_refresh_token(refresh_token) = {}
       THEN last' = Response("refresh", 401, "Refresh token not found",
                             NoEmail, NoToken, refresh_token, NoJwt)
       ELSE IF get_user_by_id(refresh_token.user_id) = {}
       THEN last' = Response("refresh", 404, "User not found", NoEmail,
                             NoToken, refresh_token, NoJwt)
       ELSE LET new_access_token ==
                    create_access_token(refresh_token.user_id, now)
            IN last' = Response("refresh", 200, "access token", NoEmail,
                                NoToken, refresh_token, new_access_token)
    /\ UNCHANGED <<now, db, next_token, logged_out, conc>>

(* ---------------- POST /logout/ ---------------- *)
\* a logout that ends every session of the user
logout_user_all_devices(refresh_token) ==
    /\ \E refresh_token_record \in
            first(get_refresh_token_by_refresh_token(refresh_token)) :
         IF refresh_token_record = NoRow
         THEN /\ last' = Response("logout", 401, "Refresh token not found",
                                  NoEmail, NoToken, refresh_token, NoJwt)
              /\ UNCHANGED <<refresh_tokens, logged_out>>
         ELSE /\ refresh_tokens' =
                   {r \in refresh_tokens :
                       r.user_id # refresh_token_record.user_id}
              /\ logged_out' = logged_out \cup {refresh_token}
              /\ last' = Response("logout", 200, "logged out", NoEmail,
                                  NoToken, refresh_token, NoJwt)
    /\ UNCHANGED <<now, users, activation_tokens, password_reset_tokens,
                   next_token, conc>>

logout_user(refresh_token) ==
    /\ \E refresh_token_record \in
            first(get_refresh_token_by_refresh_token(refresh_token)) :
         IF refresh_token_record = NoRow
         THEN /\ last' = Response("logout", 401, "Refresh token not found",
                                  NoEmail, NoToken, refresh_token, NoJwt)
              /\ UNCHANGED <<refresh_tokens, logged_out>>
         ELSE /\ refresh_tokens' = refresh_tokens \ {refresh_token_record}
              /\ logged_out' = logged_out \cup {refresh_token}
              /\ last' = Response("logout", 200, "logged out", NoEmail,
                                  NoToken, refresh_token, NoJwt)
    /\ UNCHANGED <<now, users, activation_tokens, password_reset_tokens,
                   next_token, conc>>

(* ---------------- utils/dependencies.py ---------------- *)
\* a dependency that also asks for a stored refresh token of the user
get_current_user_checks_store(token) ==
    /\ IF \/ ~decode_access_token_ok(token, now)
          \/ \A r \in refresh_tokens : r.user_id # token.user_id
       THEN last' = Response("current_user", 401, "Token expired or invalid",
                             NoEmail, NoToken, token, NoJwt)
       ELSE IF get_user_by_id(token.user_id) = {}
       THEN last' = Response("current_user", 404, "User not found",
                             NoEmail, NoToken, token, NoJwt)
       ELSE \E user \in get_user_by_id(token.user_id) :
               last' = Response("current_user", 200, "user", user,
                                NoToken, token, NoJwt)
    /\ UNCHANGED <<now, db, next_token, logged_out, conc>>

\* the bearer token of a request to a protected route
get_current_user(token) ==
    /\ IF ~decode_access_token_ok(token, now)
       THEN last' = Response("current_user", 401, "Token expired or invalid",
                             NoEmail, NoToken, token, NoJwt)
       ELSE IF get_user_by_id(token.user_id) = {}
       THEN last' = Response("current_user", 404, "User not found",
                             NoEmail, NoToken, token, NoJwt)
       ELSE \E user \in get_user_by_id(token.user_id) :
               last' = Response("current_user", 200, "user", user,
                                NoToken, token, NoJwt)
    /\ UNCHANGED <<now, db, next_token, logged_out, conc>>

(* ---------------- POST /resend-activation/ ---------------- *)
\* a token that is issued already past its expiry
create_activation_token_already_expired(tokens, user_id) ==
    tokens \cup {TokenRow(next_token, user_id, now - 1)}

create_activation_token_by_user_id(tokens, user_id) ==
    tokens \cup {TokenRow(next_token, user_id, now + ACTIVATION_TOKEN_TTL)}

\* a resend that does not look at is_active
resend_activation_email_for_any_user(email) ==
    /\ IF get_user_by_email(email) = {}
       THEN /\ last' = Response("resend", 404, "no user", email, NoToken,
                                NoJwt, NoJwt)
            /\ UNCHANGED <<activation_tokens, next_token>>
       ELSE \E token_record \in
                first(get_latest_activation_token_by_email(email)) :
            /\ next_token <= MaxTokens
            /\ activation_tokens' =
                 create_activation_token_by_user_id(
                   activation_tokens \ {token_record}, users[email].id)
            /\ next_token' = next_token + 1
            /\ last' = Response("resend", 200, "sent", email, next_token,
                                NoJwt, NoJwt)
    /\ UNCHANGED <<now, users, password_reset_tokens, refresh_tokens,
                   logged_out, conc>>

resend_activation_email(email) ==
    /\ IF get_user_by_email(email) = {}
       THEN /\ last' = Response("resend", 404, "no user", email, NoToken,
                                NoJwt, NoJwt)
            /\ UNCHANGED <<activation_tokens, next_token>>
       ELSE IF users[email].is_active
       THEN /\ last' = Response("resend", 400, "already active", email,
                                NoToken, NoJwt, NoJwt)
            /\ UNCHANGED <<activation_tokens, next_token>>
       ELSE \E token_record \in
                first(get_latest_activation_token_by_email(email)) :
            /\ next_token <= MaxTokens
            /\ activation_tokens' =
                 create_activation_token_by_user_id(
                   activation_tokens \ {token_record}, users[email].id)
            /\ next_token' = next_token + 1
            /\ last' = Response("resend", 200, "sent", email, next_token,
                                NoJwt, NoJwt)
    /\ UNCHANGED <<now, users, password_reset_tokens, refresh_tokens,
                   logged_out, conc>>

(* ---------------- services/tasks.py ---------------- *)
\* a sweep that also deletes the tokens expiring at this very instant
remove_expired_activation_tokens_at_expiry ==
    /\ activation_tokens' =
         {r \in activation_tokens : ~(r.expires_at <= now)}
    /\ last' = Response("sweep", 0, "", NoEmail, NoToken, NoJwt, NoJwt)
    /\ UNCHANGED <<now, users, password_reset_tokens, refresh_tokens,
                   next_token, logged_out, conc>>

remove_expired_activation_tokens ==
    /\ activation_tokens' =
         {r \in activation_tokens : ~(r.expires_at < now)}
    /\ last' = Response("sweep", 0, "", NoEmail, NoToken, NoJwt, NoJwt)
    /\ UNCHANGED <<now, users, password_reset_tokens, refresh_tokens,
                   next_token, logged_out, conc>>

(* ------- POST /password-reset/request/, one awaited call at a time ----- *)
rpr_get_user(p, email) ==
    /\ pc[p] = "idle"
    /\ IF get_user_by_email(email) = {} \/ ~users[email].is_active
       THEN /\ last' = Response("reset_request", 200, "if registered", email,
                                NoToken, NoJwt, NoJwt)
            /\ UNCHANGED <<pc, req_user>>
       ELSE /\ pc' = [pc EXCEPT ![p] = "delete"]
            /\ req_user' = [req_user EXCEPT ![p] = email]
            /\ UNCHANGED last
    /\ UNCHANGED <<now, db, next_token, logged_out, req_data>>

rpr_delete(p) ==
    /\ pc[p] = "delete"
    /\ password_reset_tokens' =
         delete_password_reset_token_by_user_id(
           password_reset_tokens, users[req_user[p]].id)
    /\ pc' = [pc EXCEPT ![p] = "create"]
    /\ UNCHANGED <<now, users, activation_tokens, refresh_tokens, next_token,
                   logged_out, last, req_user, req_data>>

rpr_create(p) ==
    /\ pc[p] = "create"
    /\ next_token <= MaxTokens
    /\ password_reset_tokens' =
         create_password_reset_token_by_user_id(
           password_reset_tokens, users[req_user[p]].id)
    /\ next_token' = next_token + 1
    /\ pc' = [pc EXCEPT ![p] = "idle"]
    /\ req_user' = [req_user EXCEPT ![p] = NoEmail]
    /\ last' = Response("reset_request", 200, "if registered", req_user[p],
                        NoToken, NoJwt, NoJwt)
    /\ UNCHANGED <<now, users, activation_tokens, refresh_tokens, logged_out,
                   req_data>>

(* ------- POST /activate/, one step per read, write and commit ---------- *)
\* the lookup and the checks made on the row it returns
activate_account_lookup(p, email, token) ==
    /\ pc[p] = "idle"
    /\ \E token_record \in first(get_activation_token_by_email_token(email, token)) :
         IF token_record = NoRow
         THEN /\ last' = Response("activate", 400, "invalid", email, token,
                                  NoJwt, NoJwt)
              /\ UNCHANGED <<activation_tokens, conc>>
         ELSE IF is_expired(token_record, now)
         THEN /\ activation_tokens' = activation_tokens \ {token_record}
              /\ last' = Response("activate", 400, "invalid", email, token,
                                  NoJwt, NoJwt)
              /\ UNCHANGED conc
         ELSE IF users[email].is_active
         THEN /\ last' = Response("activate", 400, "already active", email,
                                  token, NoJwt, NoJwt)
              /\ UNCHANGED <<activation_tokens, conc>>
         ELSE /\ pc' = [pc EXCEPT ![p] = "set_active"]
              /\ req_user' = [req_user EXCEPT ![p] = email]
              /\ req_data' = [req_data EXCEPT ![p] =
                                [token_record |-> token_record, password |-> ""]]
              /\ UNCHANGED <<activation_tokens, last>>
    /\ UNCHANGED <<now, users, password_reset_tokens, refresh_tokens,
                   next_token, logged_out>>

\* a write of is_active that is committed on its own, before the deletion
activate_account_set_active_commits(p) ==
    /\ pc[p] = "set_active"
    /\ users' = [users EXCEPT ![req_user[p]].is_active = TRUE]
    /\ pc' = [pc EXCEPT ![p] = "delete_activation_token"]
    /\ UNCHANGED <<now, activation_tokens, password_reset_tokens,
                   refresh_tokens, next_token, logged_out, last, req_user,
                   req_data>>

\* user.is_active = True: a change held by the session, not yet written
activate_account_set_active(p) ==
    /\ pc[p] = "set_active"
    /\ pc' = [pc EXCEPT ![p] = "delete_activation_token"]
    /\ UNCHANGED <<now, db, next_token, logged_out, last, req_user, req_data>>

\* delete_token: db.delete and the one db.commit, which writes the pending
\* is_active with the deletion, or raises and writes nothing
activate_account_delete_token(p) ==
    /\ pc[p] = "delete_activation_token"
    /\ \/ /\ users' = [users EXCEPT ![req_user[p]].is_active = TRUE]
          /\ activation_tokens' =
               activation_tokens \ {req_data[p].token_record}
          /\ last' = Response("activate", 200, "activated", req_user[p],
                              req_data[p].token_record.token, NoJwt, NoJwt)
       \/ /\ UNCHANGED <<users, activation_tokens>>
          /\ last' = Response("activate", 500, "error", req_user[p],
                              req_data[p].token_record.token, NoJwt, NoJwt)
    /\ pc' = [pc EXCEPT ![p] = "idle"]
    /\ req_user' = [req_user EXCEPT ![p] = NoEmail]
    /\ req_data' = [req_data EXCEPT ![p] = NoData]
    /\ UNCHANGED <<now, password_reset_tokens, refresh_tokens, next_token,
                   logged_out>>

(* --- POST /reset-password/complete/, one step per read, write, commit -- *)
reset_password_lookup(p, email, token, password) ==
    /\ pc[p] = "idle"
    /\ IF get_user_by_email(email) = {} \/ ~users[email].is_active
       THEN /\ last' = Response("reset", 400, "invalid", email, token,
                                NoJwt, NoJwt)
            /\ UNCHANGED <<password_reset_tokens, conc>>
       ELSE \E token_record \in
                first(get_password_reset_token_by_user_id(users[email].id)) :
            IF token_record = NoRow \/ token_record.token # token
            THEN /\ password_reset_tokens' =
                      password_reset_tokens \ {token_record}
                 /\ last' = Response("reset", 400, "invalid", email, token,
                                     NoJwt, NoJwt)
                 /\ UNCHANGED conc
            ELSE IF is_expired(token_record, now)
            THEN /\ password_reset_tokens' =
                      password_reset_tokens \ {token_record}
                 /\ last' = Response("reset", 400, "invalid", email, token,
                                     NoJwt, NoJwt)
                 /\ UNCHANGED conc
            ELSE /\ pc' = [pc EXCEPT ![p] = "set_password"]
                 /\ req_user' = [req_user EXCEPT ![p] = email]
                 /\ req_data' = [req_data EXCEPT ![p] =
                                   [token_record |-> token_record,
                                    password |-> password]]
                 /\ UNCHANGED <<password_reset_tokens, last>>
    /\ UNCHANGED <<now, users, activation_tokens, refresh_tokens, next_token,
                   logged_out>>

\* user.password = data.password: a change held by the session
reset_password_set_password(p) ==
    /\ pc[p] = "set_password"
    /\ pc' = [pc EXCEPT ![p] = "delete_reset_token"]
    /\ UNCHANGED <<now, db, next_token, logged_out, last, req_user, req_data>>

\* delete_token: the one db.commit writes the new password with the
\* deletion; SQLAlchemyError leads to db_rollback and 500
reset_password_delete_token(p) ==
    /\ pc[p] = "delete_reset_token"
    /\ \/ /\ users' = [users EXCEPT ![req_user[p]].password =
                                       hash_password(req_data[p].password)]
          /\ password_reset_tokens' =
               password_reset_tokens \ {req_data[p].token_record}
          /\ last' = Response("reset", 200, "reset", req_user[p],
                              req_data[p].token_record.token, NoJwt, NoJwt)
       \/ /\ UNCHANGED <<users, password_reset_tokens>>
          /\ last' = Response("reset", 500, "error", req_user[p],
                              req_data[p].token_record.token, NoJwt, NoJwt)
    /\ pc' = [pc EXCEPT ![p] = "idle"]
    /\ req_user' = [req_user EXCEPT ![p] = NoEmail]
    /\ req_data' = [req_data EXCEPT ![p] = NoData]
    /\ UNCHANGED <<now, activation_tokens, refresh_tokens, next_token,
                   logged_out>>

(* ------- POST /resend-activation/, one awaited call at a time ---------- *)
resend_get_user(p, email) ==
    /\ pc[p] = "idle"
    /\ IF get_user_by_email(email) = {}
       THEN /\ last' = Response("resend", 404, "no user", email, NoToken,
                                NoJwt, NoJwt)
            /\ UNCHANGED conc
       ELSE IF users[email].is_active
       THEN /\ last' = Response("resend", 400, "already active", email,
                                NoToken, NoJwt, NoJwt)
            /\ UNCHANGED conc
       ELSE /\ pc' = [pc EXCEPT ![p] = "resend_latest"]
            /\ req_user' = [req_user EXCEPT ![p] = email]
            /\ UNCHANGED <<last, req_data>>
    /\ UNCHANGED <<now, db, next_token, logged_out>>

resend_get_latest(p) ==
    /\ pc[p] = "resend_latest"
    /\ \E token_record \in
           first(get_latest_activation_token_by_email(req_user[p])) :
         /\ req_data' = [req_data EXCEPT ![p] =
                           [token_record |-> token_record, password |-> ""]]
         /\ pc' = [pc EXCEPT ![p] = IF token_record = NoRow
                                    THEN "resend_create"
                                    ELSE "resend_delete"]
    /\ UNCHANGED <<now, db, next_token, logged_out, last, req_user>>

\* delete_token: a deletion that matches no row any more changes nothing
resend_delete_token(p) ==
    /\ pc[p] = "resend_delete"
    /\ activation_tokens' = activation_tokens \ {req_data[p].token_record}
    /\ pc' = [pc EXCEPT ![p] = "resend_create"]
    /\ UNCHANGED <<now, users, password_reset_tokens, refresh_tokens,
                   next_token, logged_out, last, req_user, req_data>>

resend_create_token(p) ==
    /\ pc[p] = "resend_create"
    /\ next_token <= MaxTokens
    /\ activation_tokens' =
         create_activation_token_by_user_id(
           activation_tokens, users[req_user[p]].id)
    /\ next_token' = next_token + 1
    /\ last' = Response("resend", 200, "sent", req_user[p], next_token,
                        NoJwt, NoJwt)
    /\ pc' = [pc EXCEPT ![p] = "idle"]
    /\ req_user' = [req_user EXCEPT ![p] = NoEmail]
    /\ req_data' = [req_data EXCEPT ![p] = NoData]
    /\ UNCHANGED <<now, users, password_reset_tokens, refresh_tokens,
                   logged_out>>

(* ---------------- specifications ---------------- *)
\* the access string returned together with each refresh string, and the
\* access string of the latest response
issued_access ==
    {create_access_token(t.user_id, t.exp - REFRESH_TOKEN_TTL) :
        t \in issued_refresh}
    \cup (IF last.access = NoJwt THEN {} ELSE {last.access})

Presented == issued_refresh \cup issued_access \cup {Garbage}

Register ==
    \E e \in Emails, p \in Passwords :
        register_user(e, p) /\ UNCHANGED <<shadow, shop>>
Activate ==
    \E e \in Emails, t \in OpaqueTokens :
        activate_account(e, t) /\ UNCHANGED <<shadow, shop>>
Resend == \E e \in Emails : resend_activation_email(e) /\ UNCHANGED <<shadow, shop>>
Sweep == remove_expired_activation_tokens /\ UNCHANGED <<shadow, shop>>
RequestReset ==
    \E e \in Emails : request_password_reset_token(e) /\ UNCHANGED <<shadow, shop>>
ResetPassword ==
    \E e \in Emails, t \in OpaqueTokens, p \in Passwords :
        reset_password(e, t, p) /\ UNCHANGED <<shadow, shop>>
Login ==
    \E e \in Emails, p \in Passwords : login_user(e, p) /\ UNCHANGED <<shadow, shop>>
Refresh == \E t \in Presented : refresh_access_token(t) /\ UNCHANGED <<shadow, shop>>
Logout == \E t \in Presented : logout_user(t) /\ UNCHANGED <<shadow, shop>>
CurrentUser ==
    \E t \in Presented : get_current_user(t) /\ UNCHANGED <<shadow, shop>>

\* activation and password-reset tokens, requests served one at a time
Next ==
    \/ Tick
    \/ Register
    \/ Activate
    \/ Resend
    \/ Sweep
    \/ RequestReset
    \/ ResetPassword

Spec == Init /\ [][Next]_vars

\* login, refresh and logout, requests served one at a time, starting from
\* the accounts that registration and activation leave behind at time 0:
\* a@b.com is active; c@d.com is unknown, registered but inactive, or active
\* (register a@b.com, activate it with string 1, then for c@d.com nothing,
\* register, or register and activate with string 2)
SessionAccounts ==
    {[e \in {"a@b.com"} |-> User(1, hash_password("pw1"), TRUE)],
     [e \in Emails |-> IF e = "a@b.com"
                       THEN User(1, hash_password("pw1"), TRUE)
                       ELSE User(2, hash_password("pw2"), FALSE)],
     [e \in Emails |-> IF e = "a@b.com"
                       THEN User(1, hash_password("pw1"), TRUE)
                       ELSE User(2, hash_password("pw2"), TRUE)]}

InitSession ==
    /\ now = 0
    /\ users \in SessionAccounts
    /\ activation_tokens =
         {TokenRow(users[e].id, users[e].id, ACTIVATION_TOKEN_TTL) :
             e \in {x \in DOMAIN users : ~users[x].is_active}}
    /\ password_reset_tokens = {}
    /\ refresh_tokens = {}
    /\ next_token = Cardinality(DOMAIN users) + 1
    /\ logged_out = {}
    /\ last = Response("none", 0, "", NoEmail, NoToken, NoJwt, NoJwt)
    /\ pc = [p \in Procs |-> "idle"]
    /\ req_user = [p \in Procs |-> NoEmail]
    /\ req_data = [p \in Procs |-> NoData]
    /\ shadow = Shadow(users, activation_tokens, 0, "")
    /\ InitShop

NextSession ==
    \/ Tick
    \/ Login
    \/ Refresh
    \/ Logout
    \/ CurrentUser

SpecSession == InitSession /\ [][NextSession]_vars

\* the same requests with the hourly sweep of services/celery_app.py running
\* beside them; the sweep keeps being run and clients keep sending requests
NextSessionSweep ==
    \/ Tick
    \/ Login
    \/ Refresh
    \/ Logout
    \/ CurrentUser
    \/ Sweep

SpecSessionSweep ==
    /\ InitSession
    /\ [][NextSessionSweep]_vars
    /\ WF_vars(Sweep)
    /\ WF_vars(CurrentUser)

\* password-reset requests interleaved at their awaited store calls
NextConc ==
    \/ Tick
    \/ Register
    \/ Activate
    \/ \E p \in Procs, e \in Emails : rpr_get_user(p, e) /\ UNCHANGED <<shadow, shop>>
    \/ \E p \in Procs : rpr_delete(p) /\ UNCHANGED <<shadow, shop>>
    \/ \E p \in Procs : rpr_create(p) /\ UNCHANGED <<shadow, shop>>

SpecConc == Init /\ [][NextConc]_vars

\* activation and password reset split at their reads, writes and commits,
\* two requests in flight, the commit free to fail
ActivateLookup ==
    \E p \in Procs, e \in Emails, t \in OpaqueTokens :
        activate_account_lookup(p, e, t) /\ UNCHANGED <<shadow, shop>>
ActivateSetActive ==
    \E p \in Procs : activate_account_set_active(p) /\ UNCHANGED <<shadow, shop>>
ActivateDeleteToken ==
    \E p \in Procs : activate_account_delete_token(p) /\ UNCHANGED <<shadow, shop>>
ResetLookup ==
    \E p \in Procs, e \in Emails, t \in OpaqueTokens, w \in Passwords :
        reset_password_lookup(p, e, t, w) /\ UNCHANGED <<shadow, shop>>
ResetSetPassword ==
    \E p \in Procs : reset_password_set_password(p) /\ UNCHANGED <<shadow, shop>>
ResetDeleteToken ==
    \E p \in Procs : reset_password_delete_token(p) /\ UNCHANGED <<shadow, shop>>

\* the state left at time 0 by register a@b.com (string 1), register c@d.com
\* and activate it (string 2), request a password reset for c@d.com (string 3)
InitAtomic ==
    /\ now = 0
    /\ users = [e \in Emails |->
                  IF e = "a@b.com"
                  THEN User(1, hash_password("pw1"), FALSE)
                  ELSE User(2, hash_password("pw2"), TRUE)]
    /\ activation_tokens = {TokenRow(1, 1, ACTIVATION_TOKEN_TTL)}
    /\ password_reset_tokens = {TokenRow(3, 2, PASSWORD_RESET_TOKEN_TTL)}
    /\ refresh_tokens = {}
    /\ next_token = 4
    /\ logged_out = {}
    /\ last = Response("none", 0, "", NoEmail, NoToken, NoJwt, NoJwt)
    /\ pc = [p \in Procs |-> "idle"]
    /\ req_user = [p \in Procs |-> NoEmail]
    /\ req_data = [p \in Procs |-> NoData]
    /\ shadow = Shadow(users, activation_tokens, 0, "")
    /\ InitShop

NextAtomic ==
    \/ Tick
    \/ ActivateLookup
    \/ ActivateSetActive
    \/ ActivateDeleteToken
    \/ ResetLookup
    \/ ResetSetPassword
    \/ ResetDeleteToken

SpecAtomic == InitAtomic /\ [][NextAtomic]_vars

\* resend requests interleaved at their awaited store calls
ResendGetUser ==
    \E p \in Procs, e \in Emails : resend_get_user(p, e) /\ UNCHANGED <<shadow, shop>>
ResendGetLatest ==
    \E p \in Procs : resend_get_latest(p) /\ UNCHANGED <<shadow, shop>>
ResendDeleteToken ==
    \E p \in Procs : resend_delete_token(p) /\ UNCHANGED <<shadow, shop>>
ResendCreateToken ==
    \E p \in Procs : resend_create_token(p) /\ UNCHANGED <<shadow, shop>>

NextResend ==
    \/ Tick
    \/ Register
    \/ ResendGetUser
    \/ ResendGetLatest
    \/ ResendDeleteToken
    \/ ResendCreateToken

SpecResend == Init /\ [][NextResend]_vars

(* ------- the same requests served by a run in which no sweep runs ------ *)
\* register_user on the users and activation tokens of sh; fault tells
\* where a SQLAlchemyError was raised: "none", "rollback" or "refresh"
register_outcome(sh, email, password, fault) ==
    IF email \in DOMAIN sh.users
    THEN Shadow(sh.users, sh.activation_tokens, 409, "exists")
    ELSE IF fault = "rollback"
    THEN Shadow(sh.users, sh.activation_tokens, 500, "error")
    ELSE LET id == Cardinality(DOMAIN sh.users) + 1
         IN Shadow([e \in DOMAIN sh.users \cup {email} |->
                       IF e = email
                       THEN User(id, hash_password(password), FALSE)
                       ELSE sh.users[e]],
                   sh.activation_tokens \cup
                     {TokenRow(next_token, id, now + ACTIVATION_TOKEN_TTL)},
                   IF fault = "none" THEN 201 ELSE 500,
                   IF fault = "none" THEN "created" ELSE "error")

\* activate_account on the users and activation tokens of sh
activate_outcome(sh, email, token) ==
    LET rows == {r \in sh.activation_tokens :
                    /\ r.token = token
                    /\ \E e \in DOMAIN sh.users :
                          e = email /\ sh.users[e].id = r.user_id}
    IN IF rows = {}
       THEN Shadow(sh.users, sh.activation_tokens, 400, "invalid")
       ELSE LET token_record == CHOOSE r \in rows : TRUE
            IN IF is_expired(token_record, now)
               THEN Shadow(sh.users, sh.activation_tokens \ {token_record},
                           400, "invalid")
               ELSE IF sh.users[email].is_active
               THEN Shadow(sh.users, sh.activation_tokens,
                           400, "already active")
               ELSE Shadow([sh.users EXCEPT ![email].is_active = TRUE],
                           sh.activation_tokens \ {token_record},
                           200, "activated")

\* resend_activation_email on the users and activation tokens of sh
resend_outcome(sh, email) ==
    IF email \notin DOMAIN sh.users
    THEN Shadow(sh.users, sh.activation_tokens, 404, "no user")
    ELSE IF sh.users[email].is_active
    THEN Shadow(sh.users, sh.activation_tokens, 400, "already active")
    ELSE LET rows == {r \in sh.activation_tokens :
                         r.user_id = sh.users[email].id}
             latest == {r \in rows : \A q \in rows :
                                        q.expires_at <= r.expires_at}
             kept == IF latest = {}
                     THEN sh.activation_tokens
                     ELSE sh.activation_tokens \ {CHOOSE r \in latest : TRUE}
         IN Shadow(sh.users,
                   kept \cup {TokenRow(next_token, sh.users[email].id,
                                       now + ACTIVATION_TOKEN_TTL)},
                   200, "sent")

\* each request is served by both runs; only the first run is swept
RegisterBoth ==
    \E e \in Emails, p \in Passwords :
        /\ register_user(e, p)
        /\ shadow' = register_outcome(
                       shadow, e, p,
                       IF last'.status # 500 THEN "none"
                       ELSE IF e \in DOMAIN users' THEN "refresh"
                       ELSE "rollback")
        /\ UNCHANGED shop
ActivateBoth ==
    \E e \in Emails, t \in OpaqueTokens :
        /\ activate_account(e, t)
        /\ shadow' = activate_outcome(shadow, e, t)
        /\ UNCHANGED shop
ResendBoth ==
    \E e \in Emails :
        /\ resend_activation_email(e)
        /\ shadow' = resend_outcome(shadow, e)
        /\ UNCHANGED shop

NextSweep ==
    \/ Tick
    \/ RegisterBoth
    \/ ActivateBoth
    \/ ResendBoth
    \/ Sweep

SpecSweep == Init /\ [][NextSweep]_vars

(* ======================= login / refresh / logout ====================== *)
stored_refresh(token) == \E r \in refresh_tokens : r.token = token
user_exists(user_id) == \E e \in DOMAIN users : users[e].id = user_id
registered(email) == email \in DOMAIN users
correct_password(email, password) == users[email].password.of = password

\* the step is a call of refresh_access_token / login_user
refresh_step == last'.op = "refresh" /\ refresh_access_token(last'.jwt)
login_step(p) == last'.op = "login" /\ login_user(last'.email, p)

\* C1: after logout_user succeeded for a refresh string, every later
\* refresh_access_token presenting that string while it still decodes is
\* answered 401 "Refresh token not found" and issues no access token.
C1_Revocation ==
    [][(refresh_step /\ last'.jwt \in logged_out
          /\ decode_refresh_token_ok(last'.jwt, now))
       => /\ last'.status = 401
          /\ last'.detail = "Refresh token not found"
          /\ last'.access = NoJwt]_vars

\* C2: refresh_access_token answers 400 when the string does not decode as
\* a refresh token (whatever the table holds), else 401 when the string is
\* not in the table, else 404 when the decoded user_id has no user, and it
\* issues an access token (200) only when all three checks pass.
C2_RefreshChecksInOrder ==
    [][refresh_step =>
         LET t == last'.jwt
             decodes == decode_refresh_token_ok(t, now)
             stored == stored_refresh(t)
             user == user_exists(t.user_id)
         IN /\ ~decodes => last'.status = 400
            /\ (decodes /\ ~stored) => last'.status = 401
            /\ (decodes /\ stored /\ ~user) => last'.status = 404
            /\ (decodes /\ stored /\ user) => last'.status = 200
            /\ (last'.status = 200) <=> (last'.access # NoJwt)
            /\ last'.access # NoJwt =>
                  /\ last'.access.key = "access"
                  /\ last'.access.user_id = t.user_id]_vars

C2_Witness ==
    /\ last.op = "refresh"
    /\ last.status = 200
    /\ last.access.key = "access"
    /\ \E r \in refresh_tokens : r.token # last.jwt

\* C3: for an inactive user login_user answers 403 with the correct
\* password and 401 with a wrong one, the same response an unknown email
\* gets; 403 is only ever returned to a caller with the correct password.
C3_InactiveLogin ==
    [][\A p \in Passwords :
         login_step(p) =>
           LET e == last'.email
           IN /\ (registered(e) /\ ~users[e].is_active
                    /\ correct_password(e, p))
                   => last'.status = 403
              /\ (~registered(e) \/ ~correct_password(e, p))
                   => /\ last'.status = 401
                      /\ last'.detail = "invalid credentials"
                      /\ last'.jwt = NoJwt /\ last'.access = NoJwt
              /\ last'.status = 403
                   => registered(e) /\ correct_password(e, p)]_vars

C3_Witness ==
    /\ last.op = "login"
    /\ last.status = 401
    /\ registered(last.email)
    /\ ~users[last.email].is_active

\* C4: a successful login_user returns an access and a refresh token and
\* the refresh string is stored for that user, so a refresh presenting it
\* at once succeeds; a login answered 401 or 403 stores nothing.
C4_LoginStoresRefreshToken ==
    [][/\ \A p \in Passwords :
            login_step(p) =>
              LET e == last'.email
              IN /\ last'.status = 201 =>
                      /\ last'.jwt.key = "refresh"
                      /\ last'.access.key = "access"
                      /\ \E r \in refresh_tokens' :
                           r.token = last'.jwt /\ r.user_id = users[e].id
                      /\ last'.jwt.user_id = users[e].id
                      /\ users[e].is_active
                 /\ last'.status \in {401, 403} =>
                      refresh_tokens' = refresh_tokens
       /\ (refresh_step /\ last.op = "login" /\ last.status = 201
             /\ last'.jwt = last.jwt
             /\ last.jwt = create_refresh_token(last.jwt.user_id, now))
          => last'.status = 200]_vars

C4_Witness ==
    /\ last.op = "login"
    /\ last.status = 201
    /\ stored_refresh(last.jwt)

(* ================= activation and password-reset tokens ================ *)
activate_step ==
    last'.op = "activate" /\ activate_account(last'.email, last'.token)
request_step ==
    last'.op = "reset_request" /\ request_password_reset_token(last'.email)
reset_step(p) ==
    last'.op = "reset" /\ reset_password(last'.email, last'.token, p)

reset_tokens_of(email) ==
    {r \in password_reset_tokens : r.user_id = users[email].id}
activation_tokens_of(email) ==
    {r \in activation_tokens : r.user_id = users[email].id}
active(email) == registered(email) /\ users[email].is_active

\* strings that were generated and are in neither token table any more
Removed ==
    {t \in 1 .. (next_token - 1) :
        \A r \in activation_tokens \cup password_reset_tokens : r.token # t}

\* C5: with requests served one at a time every user has at most one
\* password-reset token; a new request removes the user's earlier token,
\* and reset_password presenting a string that was replaced is rejected.
C5_ResetTokenSingleton ==
    /\ [](\A e \in DOMAIN users : Cardinality(reset_tokens_of(e)) <= 1)
    /\ [][request_step =>
            \A r \in password_reset_tokens :
               (active(last'.email) /\ r.user_id = users[last'.email].id)
               => \A q \in password_reset_tokens' : q.token # r.token]_vars
    /\ [][\A p \in Passwords :
            (reset_step(p) /\ last'.token \in Removed)
            => last'.status = 400 /\ users' = users]_vars

\* one user; string 1 activated the account, string 2 was the first reset
\* token, string 3 replaced it, and string 2 has just been presented
C5_Witness ==
    /\ last.op = "reset"
    /\ last.status = 400
    /\ last.token \in Removed
    /\ active(last.email)
    /\ Cardinality(DOMAIN users) = 1
    /\ last.token = 2
    /\ next_token = 4

\* C6: also when two password-reset requests for one active user interleave
\* at their store calls, no user ever has two password-reset tokens.
C6_SingletonWhenInterleaved ==
    \A e \in DOMAIN users :
       \A r, q \in password_reset_tokens :
          (r.user_id = users[e].id /\ q.user_id = users[e].id) => r = q

C9_ActivationSingleUse ==
    [][activate_step =>
         LET e == last'.email
             t == last'.token
         IN /\ (registered(e) /\ ~users[e].is_active
                  /\ \E r \in activation_tokens_of(e) :
                        r.token = t /\ r.expires_at >= now)
               => /\ last'.status = 200
                  /\ users'[e].is_active
                  /\ \A r \in activation_tokens' : r.token # t
            /\ (last.op = "activate" /\ last.status = 200
                  /\ last.email = e /\ last.token = t)
               => /\ last'.status = 400
                  /\ last'.detail = "invalid"
                  /\ db' = db]_vars

C9_Witness ==
    /\ last.op = "activate"
    /\ last.status = 400
    /\ active(last.email)
    /\ last.token \in Removed

\* C10: a token string that has left the tables (consumed, found expired,
\* replaced by a resend or a new reset request, or swept) never comes back,
\* and no later activate_account or reset_password presenting it succeeds.
C10_NoResurrection ==
    [][/\ Removed \subseteq Removed'
       /\ (activate_step /\ last'.token \in Removed)
            => last'.status = 400 /\ users' = users
       /\ \A p \in Passwords :
            (reset_step(p) /\ last'.token \in Removed)
            => last'.status = 400 /\ users' = users]_vars

C10_Witness ==
    /\ last.op = "activate"
    /\ last.status = 400
    /\ last.token \in Removed
    /\ registered(last.email)
    /\ ~users[last.email].is_active
    /\ activation_tokens_of(last.email) # {}

(* ============================ expiry on lookup ========================= *)
\* C11: when activate_account or reset_password finds the stored token
\* with expires_at <= now (expires_at = now included), it deletes the token
\* and rejects the call, leaving is_active and the password unchanged.
C11_ExpiryOnLookup ==
    [][/\ activate_step =>
            \A r \in get_activation_token_by_email_token(last'.email,
                                                         last'.token) :
               r.expires_at <= now
               => /\ last'.status = 400
                  /\ r \notin activation_tokens'
                  /\ users' = users
       /\ \A p \in Passwords :
            reset_step(p) =>
              \A r \in password_reset_tokens :
                 (/\ active(last'.email)
                  /\ r.user_id = users[last'.email].id
                  /\ r.token = last'.token
                  /\ r.expires_at <= now)
                 => /\ last'.status = 400
                    /\ r \notin password_reset_tokens'
                    /\ users' = users]_vars

(* ========================= consumption in one commit =================== *)
\* the request that takes the step, and the token row it holds
steps(p) == pc'[p] # pc[p]
held_token(p) == req_data[p].token_record
stored_tokens == activation_tokens \cup password_reset_tokens

\* C12: activate_account writes is_active and deletes the token in one
\* commit, and reset_password writes the password and deletes the token in
\* one commit: no step changes a user and leaves the authorising token
\* stored, no commit deletes the token without the change it authorised,
\* and a commit that fails changes neither.
C12_ConsumptionAtomic ==
    [][/\ users' # users =>
            \E p \in Procs :
               /\ steps(p)
               /\ pc[p] \in {"delete_activation_token", "delete_reset_token"}
               /\ held_token(p) \notin stored_tokens'
       /\ \A p \in Procs :
            /\ (steps(p) /\ pc[p] = "delete_activation_token") =>
                 /\ last'.op = "activate"
                 /\ held_token(p) \in activation_tokens \ activation_tokens'
                      => users'[req_user[p]].is_active
                 /\ last'.status = 200 =>
                      /\ users'[req_user[p]].is_active
                      /\ held_token(p) \notin activation_tokens'
                 /\ last'.status # 200 => db' = db
            /\ (steps(p) /\ pc[p] = "delete_reset_token") =>
                 /\ last'.op = "reset"
                 /\ held_token(p) \in
                        password_reset_tokens \ password_reset_tokens'
                      => users'[req_user[p]].password =
                            hash_password(req_data[p].password)
                 /\ last'.status = 200 =>
                      /\ users'[req_user[p]].password =
                            hash_password(req_data[p].password)
                      /\ held_token(p) \notin password_reset_tokens'
                 /\ last'.status # 200 => db' = db]_vars

\* the commit of an activation has just failed: the user is still inactive
\* and the token is still stored
C12_Witness ==
    /\ last.op = "activate"
    /\ last.status = 500
    /\ ~users[last.email].is_active
    /\ \E r \in activation_tokens_of(last.email) : r.token = last.token

(* ============================ resend and register ====================== *)
resend_step ==
    last'.op = "resend" /\ resend_activation_email(last'.email)

\* C13: with requests served one at a time, a resend_activation_email that
\* succeeds for an inactive user removes every activation token the email
\* had and leaves the user exactly one, the new one; activate_account
\* presenting an earlier string is then rejected; no user ever holds two.
C13_ResendSupersedes ==
    /\ [](\A e \in DOMAIN users : Cardinality(activation_tokens_of(e)) <= 1)
    /\ [][resend_step =>
            LET e == last'.email
            IN /\ (registered(e) /\ ~users[e].is_active)
                    <=> last'.status = 200
               /\ last'.status = 200 =>
                    /\ \A r \in activation_tokens_of(e) :
                          \A q \in activation_tokens' : q.token # r.token
                    /\ \E r \in activation_tokens' :
                          /\ r.token = last'.token
                          /\ r.token \notin 0 .. (next_token - 1)
                          /\ {q \in activation_tokens' :
                                q.user_id = users[e].id} = {r}
               /\ last'.status # 200 => db' = db]_vars
    /\ [][(activate_step /\ last.op = "resend" /\ last.status = 200
             /\ last'.email = last.email /\ last'.token # last.token)
          => last'.status = 400 /\ users' = users]_vars

\* at time 0, when nothing has expired, a resend has just replaced string 1
\* of the only user by string 2
C13_Witness ==
    /\ last.op = "resend"
    /\ last.status = 200
    /\ now = 0
    /\ Cardinality(DOMAIN users) = 1
    /\ last.token = 2
    /\ Removed = {1}
    /\ \E r \in activation_tokens : activation_tokens = {r} /\ r.token = last.token

register_step(p) ==
    last'.op = "register" /\ register_user(last'.email, p)

\* the step adds the user e, inactive, with password p, and exactly one
\* activation token, which belongs to e
created(e, p) ==
    /\ DOMAIN users' = DOMAIN users \cup {e}
    /\ e \notin DOMAIN users
    /\ ~users'[e].is_active
    /\ verify_password(p, users'[e].password)
    /\ \A x \in DOMAIN users : users'[x] = users[x]
    /\ \E r \in activation_tokens' :
          /\ r \notin activation_tokens
          /\ activation_tokens' = activation_tokens \cup {r}
          /\ r.user_id = users'[e].id
          /\ r.user_id \notin user_ids

\* C14: register_user creates the user inactive together with exactly one
\* activation token of that user, both or (when the commit fails) neither;
\* for an email that already has a user it answers 409 and creates no user
\* and no token; no other step adds a user.
C14_RegistrationAtomic ==
    [][/\ \A p \in Passwords :
            register_step(p) =>
              LET e == last'.email
              IN /\ registered(e) =>
                      /\ last'.status = 409
                      /\ db' = db
                 /\ ~registered(e) =>
                      /\ last'.status \in {201, 500}
                      /\ last'.status = 201 => created(e, p)
                      /\ created(e, p) \/ db' = db
                 /\ UNCHANGED <<password_reset_tokens, refresh_tokens>>
       /\ DOMAIN users' # DOMAIN users =>
            /\ last'.op = "register"
            /\ \E p \in Passwords : created(last'.email, p)]_vars

\* the second account has just been registered: it is inactive and holds
\* one activation token
C14_Witness ==
    /\ last.op = "register"
    /\ last.status = 201
    /\ Cardinality(DOMAIN users) = 2
    /\ ~users[last.email].is_active
    /\ \E r \in activation_tokens :
          activation_tokens_of(last.email) = {r} /\ r.token = last.token

(* ================================ the sweep ============================ *)
sweep_step == last'.op = "sweep" /\ remove_expired_activation_tokens

\* C15: a completed run of remove_expired_activation_tokens deletes every
\* activation token whose expires_at lies before the time of the run,
\* keeps every activation token that expires at that time or later, adds
\* none, and changes no user, password-reset token or refresh token.
C15_SweepPostcondition ==
    [][sweep_step =>
         /\ \A r \in activation_tokens :
               /\ r.expires_at < now => r \notin activation_tokens'
               /\ r.expires_at >= now => r \in activation_tokens'
         /\ activation_tokens' \subseteq activation_tokens
         /\ UNCHANGED <<users, password_reset_tokens, refresh_tokens,
                        next_token, logged_out, now>>]_vars

\* a sweep at time 2 has run over string 1 (expired at 1) and string 2
\* (expiring at 2): string 1 is gone, string 2 is kept
C15_Witness ==
    /\ last.op = "sweep"
    /\ now = 2
    /\ activation_tokens = {TokenRow(2, 2, 2)}
    /\ Removed = {1}
    /\ \A e \in DOMAIN users : ~users[e].is_active

\* the users and activation tokens of the swept run, as a run record
swept_run == Shadow(users, activation_tokens, 0, "")

\* the outcome function gives what the handler did in this step
same_outcome(o) ==
    /\ o.users = users'
    /\ o.activation_tokens = activation_tokens'
    /\ o.status = last'.status
    /\ o.detail = last'.detail

\* C16: for every sequence of register, resend and activate calls and
\* clock ticks, the run with sweeps inserted anywhere and the run without
\* any sweep give every call the same response and hold the same users with
\* the same is_active; they differ only in expired activation tokens that
\* the swept run no longer stores.
C16_SweepIsOptimisation ==
    /\ [](shadow.users = users)
    /\ [](last.op \in {"register", "activate", "resend"}
            => /\ shadow.status = last.status
               /\ shadow.detail = last.detail)
    /\ [](/\ activation_tokens \subseteq shadow.activation_tokens
          /\ \A r \in shadow.activation_tokens \ activation_tokens :
                r.expires_at < now)
    /\ [][/\ activate_step =>
               same_outcome(activate_outcome(swept_run, last'.email,
                                             last'.token))
          /\ resend_step =>
               same_outcome(resend_outcome(swept_run, last'.email))
          /\ \A p \in Passwords :
               register_step(p) =>
                 \E fault \in {"none", "rollback", "refresh"} :
                    same_outcome(register_outcome(swept_run, last'.email,
                                                  p, fault))]_vars

\* an activation presenting a swept string has just been rejected by both
\* runs, and the run without sweeps still stores another expired token
C16_Witness ==
    /\ last.op = "activate"
    /\ last.status = 400
    /\ shadow.status = 400
    /\ last.token \in Removed
    /\ activation_tokens = {}
    /\ shadow.activation_tokens # {}

(* ============================== access tokens ========================== *)
current_user_step ==
    last'.op = "current_user" /\ get_current_user(last'.jwt)

\* C17: get_current_user accepts every access token that decodes (right
\* key, exp not reached) and whose user exists, whatever refresh_tokens
\* holds: an access token issued at login is still accepted after
\* logout_user has deleted the refresh tokens of its user.
C17_AccessTokenOutlivesLogout ==
    [][current_user_step =>
         LET t == last'.jwt
         IN /\ (/\ t \in issued_access
                /\ t.exp > now
                /\ user_exists(t.user_id))
               => /\ last'.status = 200
                  /\ registered(last'.email)
                  /\ users[last'.email].id = t.user_id
            /\ db' = db]_vars

\* an access token has just been accepted although its login session was
\* logged out and its user has no refresh token left
C17_Witness ==
    /\ last.op = "current_user"
    /\ last.status = 200
    /\ \A r \in refresh_tokens : r.user_id # last.jwt.user_id
    /\ \E s \in logged_out :
          last.jwt = create_access_token(s.user_id, s.exp - REFRESH_TOKEN_TTL)

\* C18: refresh_access_token changes no table, whatever it answers: the
\* presented row is neither replaced nor removed, so a refresh string that
\* is stored, has not reached its exp and belongs to an existing user is
\* answered 200 again and again, also right after a successful refresh.
C18_RefreshKeepsStore ==
    [][refresh_step =>
         LET t == last'.jwt
         IN /\ refresh_tokens' = refresh_tokens
            /\ db' = db
            /\ logged_out' = logged_out
            /\ (t \in issued_refresh /\ stored_refresh(t) /\ t.exp > now
                  /\ user_exists(t.user_id))
               => /\ last'.status = 200
                  /\ \E r \in refresh_tokens' : r.token = t
            /\ (last.op = "refresh" /\ last.status = 200 /\ last.jwt = t)
               => last'.status = 200]_vars

\* a refresh string issued at time 0 has just been refreshed at a later
\* time and is still stored
C18_Witness ==
    /\ last.op = "refresh"
    /\ last.status = 200
    /\ now >= 1
    /\ last.jwt.exp = REFRESH_TOKEN_TTL
    /\ stored_refresh(last.jwt)

logout_step == last'.op = "logout" /\ logout_user(last'.jwt)

C20_KeySeparation ==
    [][/\ (refresh_step /\ last'.jwt \in issued_access)
            => /\ last'.status = 400
               /\ last'.detail = "decode error"
               /\ last'.access = NoJwt
       /\ (current_user_step /\ last'.jwt \in issued_refresh)
            => /\ last'.status = 401
               /\ last'.detail = "Token expired or invalid"]_vars

\* a refresh token that is stored and would still refresh has just been
\* rejected as bearer token
C20_Witness ==
    /\ last.op = "current_user"
    /\ last.status = 401
    /\ stored_refresh(last.jwt)
    /\ decode_refresh_token_ok(last.jwt, now)

(* ========================= expired refresh tokens ====================== *)
\* every row login_user can store
RefreshRows ==
    {RefreshRow(create_refresh_token(u, t), u, t + LOGIN_TIME_DAYS) :
        u \in 1 .. Cardinality(Emails), t \in 0 .. MaxTime}

\* C21: every stored refresh-token row whose expires_at has passed is
\* eventually deleted by the sweep, also when nobody logs out.
C21_ExpiredRefreshSwept ==
    \A r \in RefreshRows :
       (r \in refresh_tokens /\ r.expires_at < now)
          ~> (r \notin refresh_tokens)

(* ===================== single use with requests in flight ============== *)
\* the request that takes the step commits a consumption and answers 200
consumes(p) ==
    /\ steps(p)
    /\ pc[p] \in {"delete_activation_token", "delete_reset_token"}
    /\ last'.status = 200

\* C22: a stored activation or password-reset token authorises at most one
\* successful request, also when two activate_account calls, or two
\* reset_password calls, presenting it interleave: a request that succeeds
\* never follows another success of the same kind with the same string.
C22_SingleUseWhenInterleaved ==
    [][\A p \in Procs :
         consumes(p) =>
           ~(/\ last.status = 200
             /\ last.op = last'.op
             /\ last.token = last'.token)]_vars

\* C23: also when two resend_activation_email calls for one inactive user
\* interleave at their store calls, no user ever holds two activation
\* tokens, and no later resend leaves two.
C23_ActivationSingletonWhenInterleaved ==
    \A e \in DOMAIN users :
       \A r, q \in activation_tokens :
          (r.user_id = users[e].id /\ q.user_id = users[e].id) => r = q

(* ===================== a wrong string burns the reset token ============ *)
\* C24: reset_password for an existing active user presenting a string
\* other than the stored reset token deletes the stored token and leaves
\* the password unchanged; a reset_password that follows a rejected one for
\* that user is rejected too, whatever string it presents, until a new
\* reset is requested.
C24_WrongStringDeletesResetToken ==
    [][\A p \in Passwords :
         reset_step(p) =>
           LET e == last'.email
               t == last'.token
           IN /\ (active(e) /\ \E r \in reset_tokens_of(e) : r.token # t)
                 => /\ last'.status = 400
                    /\ users' = users
                    /\ \A r \in password_reset_tokens' :
                          r.user_id # users[e].id
                    /\ \A r \in password_reset_tokens :
                          r.user_id # users[e].id
                          => r \in password_reset_tokens'
              /\ (active(e) /\ last.op = "reset" /\ last.status = 400
                    /\ last.email = e)
                 => /\ last'.status = 400
                    /\ users' = users]_vars

\* at time 0, the bogus string 0 has just been presented for the only
\* user, whose reset token (string 2) is no longer stored
C24_Witness ==
    /\ last.op = "reset"
    /\ last.status = 400
    /\ last.token = 0
    /\ now = 0
    /\ active(last.email)
    /\ Cardinality(DOMAIN users) = 1
    /\ next_token = 3
    /\ Removed = {1, 2}

(* ===================== active users hold no activation token =========== *)
\* C25: in every state reached by register_user, resend_activation_email,
\* activate_account and the sweep executed one at a time, an active user
\* has no activation token record.
C25_ActiveUserHasNoActivationToken ==
    \A e \in DOMAIN users :
       users[e].is_active => activation_tokens_of(e) = {}

\* one user has just been activated with the token of a resend (string 3)
\* while the other, still inactive, holds its own token
C25_Witness ==
    /\ last.op = "activate"
    /\ last.status = 200
    /\ last.token = 3
    /\ users[last.email].is_active
    /\ activation_tokens_of(last.email) = {}
    /\ \E e \in DOMAIN users :
          ~users[e].is_active /\ activation_tokens_of(e) # {}

(* ===================== an inactive user can still be activated ========= *)
\* C26: an inactive registered user can always still be activated: in any
\* reachable state, resend_activation_email for a registered inactive user
\* succeeds and stores a fresh token of that user expiring
\* ACTIVATION_TOKEN_TTL later; no step other than a resend or an activation
\* removes a token that has not expired; and activate_account presenting a
\* stored token of the inactive user before its expiry activates the user.
C26_InactiveUserCanStillBeActivated ==
    [][LET e == last'.email
           t == last'.token
       IN /\ (resend_step /\ registered(e) /\ ~active(e))
             => /\ last'.status = 200
                /\ t \notin {r.token : r \in activation_tokens}
                /\ \E r \in activation_tokens' :
                      /\ r.token = t
                      /\ r.user_id = users[e].id
                      /\ r.expires_at = now + ACTIVATION_TOKEN_TTL
          /\ (last'.op \notin {"resend", "activate"})
             => \A r \in activation_tokens :
                   now' <= r.expires_at => r \in activation_tokens'
          /\ (activate_step /\ registered(e) /\ ~active(e)
                /\ \E r \in activation_tokens_of(e) :
                      r.token = t /\ now < r.expires_at)
             => /\ last'.status = 200
                /\ users'[e].is_active]_vars

\* at time 1 the only user, registered at time 0 with token 1, has just
\* been activated with token 2, which a resend issued
C26_Witness ==
    /\ last.op = "activate"
    /\ last.status = 200
    /\ last.token = 2
    /\ now = 1
    /\ Cardinality(DOMAIN users) = 1
    /\ users[last.email].is_active
    /\ next_token = 3

(* ===================== rejected resends change nothing ================= *)
\* C27: resend_activation_email is rejected with 404 for an email that has
\* no user and with 400 for a user that is already active, and in both
\* cases it neither deletes nor creates an activation token.
C27_RejectedResendLeavesTokens ==
    [][resend_step =>
         LET e == last'.email
         IN /\ ~registered(e)
               => /\ last'.status = 404
                  /\ activation_tokens' = activation_tokens
                  /\ next_token' = next_token
            /\ active(e)
               => /\ last'.status = 400
                  /\ activation_tokens' = activation_tokens
                  /\ next_token' = next_token]_vars

\* a resend for an active user has just been refused while the other,
\* inactive user holds an activation token
C27_Witness ==
    /\ last.op = "resend"
    /\ last.status = 400
    /\ active(last.email)
    /\ \E e \in DOMAIN users : ~users[e].is_active
    /\ activation_tokens # {}
    /\ next_token <= MaxTokens

(* ============================ shopping cart ============================ *)
MaxCartItems == 3
MaxOrders == 2

\* table movies: id |-> price; the catalogue does not change here
movies == (1 :> 5) @@ (2 :> 7) @@ (3 :> 5)
\* the ids a client can name: the movies and one id that has no movie
MovieIds == (DOMAIN movies) \cup {4}
\* the user ids a client's token can carry: the accounts and a deleted one
TokenUserIds == {1, 2, 3}

accounts == <<now, db, next_token, logged_out, conc, shadow>>

CartResponse(op, status, detail, jwt, movie_id) ==
    [op |-> op, status |-> status, detail |-> detail, jwt |-> jwt,
     movie_id |-> movie_id]

NoMovie == 0

Cart(id, user_id) == [id |-> id, user_id |-> user_id]
CartItem(id, cart_id, movie_id) ==
    [id |-> id, cart_id |-> cart_id, movie_id |-> movie_id]
Order(id, user_id, total_amount) ==
    [id |-> id, user_id |-> user_id, status |-> "PENDING",
     total_amount |-> total_amount]
OrderItem(id, order_id, movie_id, price_at_order) ==
    [id |-> id, order_id |-> order_id, movie_id |-> movie_id,
     price_at_order |-> price_at_order]
Payment(id, user_id, order_id, status, amount) ==
    [id |-> id, user_id |-> user_id, order_id |-> order_id,
     status |-> status, amount |-> amount]
PaymentItem(id, payment_id, order_item_id, price_at_payment) ==
    [id |-> id, payment_id |-> payment_id, order_item_id |-> order_item_id,
     price_at_payment |-> price_at_payment]

(* ---------------- database/crud/shopping_cart.py ---------------- *)
get_movie_by_id(movie_id) ==
    IF movie_id \in DOMAIN movies THEN {movie_id} ELSE {}

get_user_cart(user_id) == {c \in carts : c.user_id = user_id}

\* Cart.items
items(cart) == {i \in cart_items : i.cart_id = cart.id}

get_cart_item(cart, movie_id) ==
    {i \in cart_items : i.cart_id = cart.id /\ i.movie_id = movie_id}

\* the cart of the user, created when the user has none
create_cart(user_id) ==
    IF get_user_cart(user_id) # {} THEN carts
    ELSE carts \cup {Cart(Cardinality(carts) + 1, user_id)}

delete_cart_item_by_cart(cart_id) ==
    {i \in cart_items : i.cart_id # cart_id}

RECURSIVE sum(_, _)
\* sum(f[x] for x in S)
sum(f, S) ==
    IF S = {} THEN 0
    ELSE LET x == CHOOSE y \in S : TRUE
         IN f[x] + sum(f, S \ {x})

(* ---------------- database/validators/shopping_cart.py ---------------- *)
\* TRUE when the validator returns, FALSE when it raises 400
validate_not_purchased(user_id, movie_id) ==
    ~\E o \in orders, i \in order_items :
        /\ i.order_id = o.id
        /\ o.user_id = user_id
        /\ o.status = "PAID"
        /\ i.movie_id = movie_id

validate_not_in_cart(user_id, movie_id) ==
    \A cart \in get_user_cart(user_id) : get_cart_item(cart, movie_id) = {}

(* ---------------- routes/shopping_cart.py ---------------- *)
\* raise HTTPException: the response is sent and no table is written
raise(op, status, detail, token, movie_id) ==
    /\ last' = CartResponse(op, status, detail, token, movie_id)
    /\ UNCHANGED shop

\* an add that runs neither validate_not_in_cart nor the lookup of
\* add_cart_item, and so meets unique_cart_movie_constraint on the insert
add_to_cart_unvalidated(token, movie_id) ==
    /\ decode_access_token_ok(token, now)
    /\ LET user_id == token.user_id
       IN IF get_user_by_id(user_id) = {}
          THEN raise("add", 404, "User with the given ID was not found.",
                     token, movie_id)
          ELSE IF get_movie_by_id(movie_id) = {}
          THEN raise("add", 404, "Movie not found", token, movie_id)
          ELSE IF ~validate_not_purchased(user_id, movie_id)
          THEN raise("add", 400, "You have already purchased this movie.",
                     token, movie_id)
          ELSE /\ carts' = create_cart(user_id)
               /\ \E cart \in {c \in carts' : c.user_id = user_id} :
                    IF get_cart_item(cart, movie_id) # {}
                    THEN /\ last' = CartResponse("add", 500, "IntegrityError",
                                                 token, movie_id)
                         /\ UNCHANGED <<cart_items, cart_item_seq>>
                    ELSE /\ cart_item_seq <= MaxCartItems
                         /\ cart_items' = cart_items \cup
                              {CartItem(cart_item_seq, cart.id, movie_id)}
                         /\ cart_item_seq' = cart_item_seq + 1
                         /\ last' = CartResponse("add", 200, "", token,
                                                 movie_id)
               /\ UNCHANGED <<orders, order_items, payments, payment_items>>
    /\ UNCHANGED accounts

add_to_cart(token, movie_id) ==
    /\ decode_access_token_ok(token, now)
    /\ LET user_id == token.user_id
       IN IF get_user_by_id(user_id) = {}
          THEN raise("add", 404, "User with the given ID was not found.",
                     token, movie_id)
          ELSE IF get_movie_by_id(movie_id) = {}
          THEN raise("add", 404, "Movie not found", token, movie_id)
          ELSE IF ~validate_not_in_cart(user_id, movie_id)
          THEN raise("add", 400, "Movie already in cart.", token, movie_id)
          ELSE IF ~validate_not_purchased(user_id, movie_id)
          THEN raise("add", 400, "You have already purchased this movie.",
                     token, movie_id)
          ELSE /\ carts' = create_cart(user_id)
               /\ \E cart \in {c \in carts' : c.user_id = user_id} :
                    \* add_cart_item
                    IF get_cart_item(cart, movie_id) # {}
                    THEN /\ last' = CartResponse(
                                      "add", 400,
                                      "Movie is already in the cart",
                                      token, movie_id)
                         /\ UNCHANGED <<cart_items, cart_item_seq>>
                    ELSE /\ cart_item_seq <= MaxCartItems
                         /\ cart_items' = cart_items \cup
                              {CartItem(cart_item_seq, cart.id, movie_id)}
                         /\ cart_item_seq' = cart_item_seq + 1
                         /\ last' = CartResponse("add", 200, "", token,
                                                 movie_id)
               /\ UNCHANGED <<orders, order_items, payments, payment_items>>
    /\ UNCHANGED accounts

remove_from_cart(token, movie_id) ==
    /\ decode_access_token_ok(token, now)
    /\ LET user_id == token.user_id
       IN IF get_user_by_id(user_id) = {}
          THEN raise("remove", 404, "User with the given ID was not found.",
                     token, movie_id)
          ELSE IF get_user_cart(user_id) = {}
          THEN raise("remove", 404, "Cart not found", token, movie_id)
          ELSE \E cart \in get_user_cart(user_id) :
                 IF get_cart_item(cart, movie_id) = {}
                 THEN raise("remove", 404, "Movie not in cart", token,
                            movie_id)
                 ELSE \E cart_item \in get_cart_item(cart, movie_id) :
                        /\ cart_items' = cart_items \ {cart_item}
                        /\ last' = CartResponse("remove", 200,
                                                "Movie removed from cart",
                                                token, movie_id)
                        /\ UNCHANGED <<carts, cart_item_seq, orders,
                                       order_items, payments, payment_items>>
    /\ UNCHANGED accounts

clear_cart(token) ==
    /\ decode_access_token_ok(token, now)
    /\ LET user_id == token.user_id
       IN IF get_user_by_id(user_id) = {}
          THEN raise("clear", 404, "User with the given ID was not found.",
                     token, NoMovie)
          ELSE IF \A cart \in get_user_cart(user_id) : items(cart) = {}
          THEN raise("clear", 404, "Cart is already empty", token, NoMovie)
          ELSE \E cart \in get_user_cart(user_id) :
                 /\ cart_items' = delete_cart_item_by_cart(cart.id)
                 /\ last' = CartResponse("clear", 200,
                                         "Cart cleared successfully",
                                         token, NoMovie)
                 /\ UNCHANGED <<carts, cart_item_seq, orders, order_items,
                                payments, payment_items>>
    /\ UNCHANGED accounts

\* the ways the rows of one flush can be numbered after the rows stored
numberings(rows, stored) ==
    {f \in [rows -> (Cardinality(stored) + 1) ..
                    (Cardinality(stored) + Cardinality(rows))] :
        \A a, b \in rows : a # b => f[a] # f[b]}

\* an order processed without emptying the cart
process_order_payment_and_keep_cart(user_id, order, cart) ==
    \E number \in numberings(items(cart), order_items) :
       LET new_items == {OrderItem(number[i], order.id, i.movie_id,
                                 movies[i.movie_id]) : i \in items(cart)}
           payment == Payment(Cardinality(payments) + 1, user_id, order.id,
                              "PENDING", order.total_amount)
       IN /\ order_items' = order_items \cup new_items
          /\ payments' = payments \cup {payment}
          /\ payment_items' = payment_items \cup
               {PaymentItem(Cardinality(payment_items) + i.id
                               - Cardinality(order_items),
                            payment.id, i.id, i.price_at_order) :
                   i \in new_items}
          /\ UNCHANGED cart_items

process_order_payment_and_clear_cart(user_id, order, cart) ==
    \E number \in numberings(items(cart), order_items) :
       LET \* create_order_items
           new_items == {OrderItem(number[i], order.id, i.movie_id,
                                 movies[i.movie_id]) : i \in items(cart)}
           \* create_payment
           payment == Payment(Cardinality(payments) + 1, user_id, order.id,
                              "PENDING", order.total_amount)
       IN /\ order_items' = order_items \cup new_items
          /\ payments' = payments \cup {payment}
          \* create_payment_items
          /\ payment_items' = payment_items \cup
               {PaymentItem(Cardinality(payment_items) + i.id
                               - Cardinality(order_items),
                            payment.id, i.id, i.price_at_order) :
                   i \in new_items}
          /\ cart_items' = delete_cart_item_by_cart(cart.id)

checkout(token) ==
    /\ decode_access_token_ok(token, now)
    /\ LET user_id == token.user_id
       IN IF get_user_by_id(user_id) = {}
          THEN raise("checkout", 404,
                     "User with the given ID was not found.", token, NoMovie)
          ELSE IF \E user \in get_user_by_id(user_id) : ~users[user].is_active
          THEN raise("checkout", 403,
                     "Please activate your account before making a purchase.",
                     token, NoMovie)
          ELSE IF \A cart \in get_user_cart(user_id) : items(cart) = {}
          THEN raise("checkout", 400, "Your cart is empty", token, NoMovie)
          ELSE \E cart \in get_user_cart(user_id) :
                 LET order ==
                       Order(Cardinality(orders) + 1, user_id,
                             sum([i \in items(cart) |-> movies[i.movie_id]],
                                 items(cart)))
                 IN /\ Cardinality(orders) < MaxOrders
                    \* create_order
                    /\ orders' = orders \cup {order}
                    /\ process_order_payment_and_clear_cart(user_id, order,
                                                            cart)
                    /\ last' = CartResponse(
                                 "checkout", 200,
                                 "Order placed successfully.",
                                 token, NoMovie)
                    /\ UNCHANGED <<carts, cart_item_seq>>
    /\ UNCHANGED accounts

(* ---------------- requests of the cart, served one at a time ----------- *)
\* two accounts, the first activated, and unexpired access tokens
InitCart ==
    /\ now = 0
    /\ users = [e \in Emails |->
                  IF e = "a@b.com"
                  THEN User(1, hash_password("pw1"), TRUE)
                  ELSE User(2, hash_password("pw2"), FALSE)]
    /\ activation_tokens = {TokenRow(1, 2, ACTIVATION_TOKEN_TTL)}
    /\ password_reset_tokens = {}
    /\ refresh_tokens = {}
    /\ next_token = 2
    /\ logged_out = {}
    /\ last = Response("none", 0, "", NoEmail, NoToken, NoJwt, NoJwt)
    /\ pc = [p \in Procs |-> "idle"]
    /\ req_user = [p \in Procs |-> NoEmail]
    /\ req_data = [p \in Procs |-> NoData]
    /\ shadow = Shadow(users, activation_tokens, 0, "")
    /\ InitShop

AccessTokens == {create_access_token(id, now) : id \in TokenUserIds}

AddToCart ==
    \E token \in AccessTokens, movie_id \in MovieIds :
        add_to_cart(token, movie_id)
RemoveFromCart ==
    \E token \in AccessTokens, movie_id \in MovieIds :
        remove_from_cart(token, movie_id)
ClearCart == \E token \in AccessTokens : clear_cart(token)
Checkout == \E token \in AccessTokens : checkout(token)

NextCart ==
    \/ AddToCart
    \/ RemoveFromCart
    \/ ClearCart
    \/ Checkout

SpecCart == InitCart /\ [][NextCart]_vars

(* ===================== the cart holds no movie twice =================== *)
add_step == last'.op = "add" /\ add_to_cart(last'.jwt, last'.movie_id)
checkout_step == last'.op = "checkout" /\ checkout(last'.jwt)

\* the cart items of the user
cart_of(user_id) ==
    {i \in cart_items : \E c \in carts : c.user_id = user_id /\ i.cart_id = c.id}

\* C28: after any sequence of add_to_cart, remove_from_cart, clear_cart and
\* checkout calls a user has at most one cart and the cart holds each movie
\* at most once; add_to_cart for a movie that is already in the user's cart
\* is rejected with 400 and leaves the cart unchanged.
C28_CartHasNoDuplicates ==
    /\ [](/\ \A c, d \in carts : c.user_id = d.user_id => c = d
          /\ \A i, j \in cart_items :
                (i.cart_id = j.cart_id /\ i.movie_id = j.movie_id) => i = j)
    /\ [][(add_step
            /\ \E i \in cart_of(last'.jwt.user_id) :
                  i.movie_id = last'.movie_id)
          => /\ last'.status = 400
             /\ UNCHANGED <<carts, cart_items>>]_vars

\* the first user, holding movies 1 and 2, has just been refused a second
\* copy of movie 2
C28_Witness ==
    /\ last.op = "add"
    /\ last.status = 400
    /\ last.jwt.user_id = 1
    /\ last.movie_id = 2
    /\ {i.movie_id : i \in cart_of(1)} = {1, 2}
    /\ Cardinality(cart_of(1)) = 2

(* ===================== what a checkout creates ========================= *)
\* C29: checkout creates an order only for an active user with a non-empty
\* cart: an inactive user is answered 403 and an empty or missing cart 400,
\* both without creating an order or a payment. On success there is one new
\* order of the user, with one order item per cart item priced at the
\* movie's price, one new PENDING payment of that order whose amount is the
\* order total, one payment item per order item, and the user's cart is
\* empty afterwards.
C29_CheckoutCreatesOrderAndPayment ==
    [][checkout_step =>
         LET user_id == last'.jwt.user_id
             inactive == \E e \in DOMAIN users :
                            users[e].id = user_id /\ ~users[e].is_active
             is_active == \E e \in DOMAIN users :
                            users[e].id = user_id /\ users[e].is_active
             new_orders == orders' \ orders
             new_order_items == order_items' \ order_items
             new_payments == payments' \ payments
             new_payment_items == payment_items' \ payment_items
         IN /\ inactive => (last'.status = 403 /\ UNCHANGED shop)
            /\ (is_active /\ cart_of(user_id) = {})
               => (last'.status = 400 /\ UNCHANGED shop)
            /\ (orders' # orders \/ payments' # payments)
               => (is_active /\ cart_of(user_id) # {} /\ last'.status = 200)
            /\ last'.status = 200
               => /\ orders \subseteq orders'
                  /\ order_items \subseteq order_items'
                  /\ payments \subseteq payments'
                  /\ payment_items \subseteq payment_items'
                  /\ Cardinality(new_orders) = 1
                  /\ Cardinality(new_payments) = 1
                  /\ Cardinality(new_order_items)
                       = Cardinality(cart_of(user_id))
                  /\ Cardinality(new_payment_items)
                       = Cardinality(new_order_items)
                  /\ \A o \in new_orders, p \in new_payments :
                        /\ o.user_id = user_id
                        /\ \A i \in cart_of(user_id) :
                              \E oi \in new_order_items :
                                 /\ oi.order_id = o.id
                                 /\ oi.movie_id = i.movie_id
                                 /\ oi.price_at_order = movies[i.movie_id]
                        /\ p.status = "PENDING"
                        /\ p.order_id = o.id
                        /\ p.user_id = user_id
                        /\ p.amount = o.total_amount
                        /\ \A oi \in new_order_items :
                              \E pi \in new_payment_items :
                                 /\ pi.payment_id = p.id
                                 /\ pi.order_item_id = oi.id
                                 /\ pi.price_at_payment = oi.price_at_order
                  /\ \A i \in cart_items' :
                        \A c \in carts : c.user_id = user_id => i.cart_id # c.id
                  /\ \A i \in cart_items \ cart_of(user_id) :
                        i \in cart_items']_vars

\* the first user has just checked out movies 1 and 2: the order and its
\* payment are for 12, the cart is empty, and the other user's cart still
\* holds a movie
C29_Witness ==
    /\ last.op = "checkout"
    /\ last.status = 200
    /\ last.jwt.user_id = 1
    /\ cart_of(1) = {}
    /\ cart_of(2) # {}
    /\ \E o \in orders, p \in payments :
          /\ o.user_id = 1
          /\ o.total_amount = 12
          /\ p.order_id = o.id
          /\ p.amount = 12
          /\ p.status = "PENDING"
          /\ Cardinality({i \in order_items : i.order_id = o.id}) = 2
          /\ Cardinality({i \in payment_items : i.payment_id = p.id}) = 2

====
